---------------------------- MODULE Spec2Model ----------------------------
(***************************************************************************)
(* Model of .github/doc/doc.py: the multi-version documentation generator. *)
(* A run is main(ref, default_ref): clean, copy_existing_versions,         *)
(* generate_docs, get_version_refs, generate_main_index, with the          *)
(* top-level try/except of the __main__ block.                             *)
(*                                                                         *)
(* Text (tags, references, template bodies, the stdout of git tag) is a    *)
(* sequence of one-character strings, so that lstrip, split, splitlines,   *)
(* int, format and the whitespace collapse are computed on characters.     *)
(***************************************************************************)
EXTENDS Integers, Sequences, FiniteSets, TLC

(***************************************************************************)
(* Bounds of the model.                                                    *)
(***************************************************************************)
\* longest stdout of `git tag` that is enumerated exhaustively
MaxOut == 4

(***************************************************************************)
(* Characters and texts.                                                   *)
(***************************************************************************)
NL == "\n"
SP == " "

\* the characters the enumerated tag listings are made of
TagChars == {"v", ".", "1", "2", "a", NL}

Master == <<"m", "a", "s", "t", "e", "r">>

\* all texts over cs of length at most n
RECURSIVE TextsUpTo(_, _)
TextsUpTo(cs, n) ==
    IF n = 0 THEN {<<>>}
    ELSE LET shorter == TextsUpTo(cs, n - 1)
         IN  shorter \cup {Append(t, c) : t \in {u \in shorter : Len(u) = n - 1}, c \in cs}

(***************************************************************************)
(* Python string and list primitives used by the script.                   *)
(***************************************************************************)
\* str.lstrip(chars) with a one-character set: drops EVERY leading c
RECURSIVE LStrip(_, _)
LStrip(s, c) ==
    IF s # <<>> /\ Head(s) = c THEN LStrip(Tail(s), c) ELSE s

\* str.split(sep) with a one-character separator: always at least one piece
RECURSIVE SplitFrom(_, _, _)
SplitFrom(s, sep, cur) ==
    IF s = <<>> THEN <<cur>>
    ELSE IF Head(s) = sep THEN <<cur>> \o SplitFrom(Tail(s), sep, <<>>)
    ELSE SplitFrom(Tail(s), sep, Append(cur, Head(s)))

Split(s, sep) == SplitFrom(s, sep, <<>>)

\* str.splitlines(): lines end at a newline; no last empty line after a
\* trailing newline; the empty text has no lines
RECURSIVE LinesFrom(_, _)
LinesFrom(s, cur) ==
    IF s = <<>> THEN (IF cur = <<>> THEN <<>> ELSE <<cur>>)
    ELSE IF Head(s) = NL THEN <<cur>> \o LinesFrom(Tail(s), <<>>)
    ELSE LinesFrom(Tail(s), Append(cur, Head(s)))

SplitLines(s) == LinesFrom(s, <<>>)

DigitChars == {"0", "1", "2", "3", "4", "5", "6", "7", "8", "9"}

DigitOf(c) ==
    CASE c = "0" -> 0 [] c = "1" -> 1 [] c = "2" -> 2 [] c = "3" -> 3
      [] c = "4" -> 4 [] c = "5" -> 5 [] c = "6" -> 6 [] c = "7" -> 7
      [] c = "8" -> 8 [] c = "9" -> 9

\* result of int(s) when it raises ValueError
ValueError == -1

\* int(s) for a text of the model's characters: the decimal value of a
\* non-empty run of digits, ValueError otherwise
RECURSIVE IntFrom(_, _)
IntFrom(s, acc) ==
    IF s = <<>> THEN acc
    ELSE IF Head(s) \in DigitChars THEN IntFrom(Tail(s), 10 * acc + DigitOf(Head(s)))
    ELSE ValueError

ParseInt(s) == IF s = <<>> THEN ValueError ELSE IntFrom(s, 0)

\* the marker character stripped from a tag before it is split
StripChar == "v"

\* the sort key of get_version_refs: list(map(int, s.lstrip("v").split(".")))
SortKey(s) ==
    LET parts == Split(LStrip(s, StripChar), ".")
    IN  [i \in 1..Len(parts) |-> ParseInt(parts[i])]

\* the key function raises on s
KeyRaises(s) == \E i \in 1..Len(SortKey(s)) : SortKey(s)[i] = ValueError

\* Python's list < list on lists of integers
RECURSIVE ListLess(_, _)
ListLess(a, b) ==
    IF b = <<>> THEN FALSE
    ELSE IF a = <<>> THEN TRUE
    ELSE IF Head(a) # Head(b) THEN Head(a) < Head(b)
    ELSE ListLess(Tail(a), Tail(b))

\* one insertion of a stable descending sort: x goes after every element
\* whose key is not less than its own
RECURSIVE InsertDesc(_, _)
InsertDesc(sorted, x) ==
    IF sorted = <<>> THEN <<x>>
    ELSE IF ListLess(SortKey(Head(sorted)), SortKey(x))
         THEN <<x>> \o sorted
         ELSE <<Head(sorted)>> \o InsertDesc(Tail(sorted), x)

\* the sort without reverse=True: ascending by key
RECURSIVE InsertAsc(_, _)
InsertAsc(sorted, x) ==
    IF sorted = <<>> THEN <<x>>
    ELSE IF ListLess(SortKey(x), SortKey(Head(sorted)))
         THEN <<x>> \o sorted
         ELSE <<Head(sorted)>> \o InsertAsc(Tail(sorted), x)

RECURSIVE SortAscFrom(_, _)
SortAscFrom(todo, sorted) ==
    IF todo = <<>> THEN sorted
    ELSE SortAscFrom(Tail(todo), InsertAsc(sorted, Head(todo)))

SortAsc(tags) == SortAscFrom(tags, <<>>)

RECURSIVE SortFrom(_, _)
SortFrom(todo, sorted) ==
    IF todo = <<>> THEN sorted
    ELSE SortFrom(Tail(todo), InsertDesc(sorted, Head(todo)))

\* list.sort(reverse=True, key=...): stable, descending by key
SortDesc(tags) == SortFrom(tags, <<>>)

(***************************************************************************)
(* Templates.  A template is a sequence of tokens: one-character strings   *)
(* and replacement fields.  The template files are not part of the script; *)
(* a read yields <<>> for a missing file and <<tpl>> for a file.           *)
(***************************************************************************)
VersionField == "{version}"
VersionsField == "{versions}"

\* str.format(field=value): every occurrence of the field becomes value
RECURSIVE FormatTpl(_, _, _)
FormatTpl(tpl, field, value) ==
    IF tpl = <<>> THEN <<>>
    ELSE (IF Head(tpl) = field THEN value ELSE <<Head(tpl)>>)
         \o FormatTpl(Tail(tpl), field, value)

\* the loop with a separator written after every row
RECURSIVE RenderRowsSeparated(_, _, _)
RenderRowsSeparated(tpl, vers, version_list) ==
    IF vers = <<>> THEN version_list
    ELSE RenderRowsSeparated(tpl, Tail(vers),
             version_list \o FormatTpl(tpl, VersionField, Head(vers)) \o <<",">>)

\* the loop of generate_main_index: version_list += version_tpl.format(version=ver)
RECURSIVE RenderRows(_, _, _)
RenderRows(tpl, vers, version_list) ==
    IF vers = <<>> THEN version_list
    ELSE RenderRows(tpl, Tail(vers), version_list \o FormatTpl(tpl, VersionField, Head(vers)))

\* s.replace("\n", "")
RECURSIVE RemoveNewlines(_)
RemoveNewlines(s) ==
    IF s = <<>> THEN <<>>
    ELSE (IF Head(s) = NL THEN <<>> ELSE <<Head(s)>>) \o RemoveNewlines(Tail(s))

\* re.sub(r" +", " ", s): every run of spaces becomes one space
RECURSIVE CollapseSpaces(_)
CollapseSpaces(s) ==
    IF s = <<>> THEN <<>>
    ELSE IF Head(s) = SP /\ Len(s) > 1 /\ s[2] = SP THEN CollapseSpaces(Tail(s))
    ELSE <<Head(s)>> \o CollapseSpaces(Tail(s))

\* the index_html computed by generate_main_index
IndexHtml(index_tpl_, version_list_) ==
    CollapseSpaces(RemoveNewlines(FormatTpl(index_tpl_, VersionsField, version_list_)))

VersionTemplates ==
    { <<"<", VersionField, "/", VersionField, ">", NL>>,
      <<SP, SP, VersionField, ";">> }

IndexTemplates ==
    { <<"[", NL, SP, SP, VersionsField, "]">>,
      <<VersionsField>> }

TemplateReads(pool) == {<<>>} \cup {<<t>> : t \in pool}

(***************************************************************************)
(* The file system.  A version directory is a function from file names to  *)
(* the origin of the file's content.                                       *)
(***************************************************************************)
NoText == <<>>

V1 == <<"v", "1">>
V2 == <<"v", "2">>

\* sys.argv of a run
ArgvSet == {<<"doc.py">>, <<"doc.py", V1>>, <<"doc.py", V2>>}

\* version directories the gh-pages branch may hold
PublishedPool == {Master, V1}

\* plain files at the top of a gh-pages worktree
PublishedFiles == {<<".", "g", "i", "t">>, <<"i", "n", "d", "e", "x">>}

PublishedTree(name) ==
    [f \in {"index.html", "crate", "legacy"} |-> [from |-> "published", of |-> name]]

\* target/docs_build/doc after cargo doc ran on the reference b
BuildDoc(b) == [f \in {"crate"} |-> [from |-> "build", of |-> b]]

RedirectPage == [f \in {"index.html"} |-> [from |-> "template", of |-> NoText]]

EmptyTree == [f \in {} |-> [from |-> "", of |-> NoText]]

NoDirs == [n \in {} |-> EmptyTree]

\* shutil.copytree(src, dst, dirs_exist_ok=True) and shutil.copy2 into a
\* directory: files of src replace files of the same name, the rest stays
Overlay(dst, src) ==
    [f \in DOMAIN dst \cup DOMAIN src |-> IF f \in DOMAIN src THEN src[f] ELSE dst[f]]

AbsentDir == [exists |-> FALSE, dirs |-> NoDirs, index |-> <<>>]
EmptyDir == [exists |-> TRUE, dirs |-> NoDirs, index |-> <<>>]

\* a removal that leaves the directory as it was
RmTreeKeep(d) == d

\* shutil.rmtree(path, ignore_errors=True)
RmTree(d) == AbsentDir

NoWorktree == [exists |-> FALSE, dirs |-> {}]

\* shutil.rmtree(gh_pages, ignore_errors=True)
RmWorktree(w) == NoWorktree

\* gh_pages.iterdir()
IterDir(w) ==
    {[name |-> n, is_dir |-> TRUE] : n \in w.dirs}
    \cup {[name |-> f, is_dir |-> FALSE] : f \in PublishedFiles}

\* the filter with item.is_dir() negated
CopiedNamesNotDir(w) == {it.name : it \in {i \in IterDir(w) : ~i.is_dir}}

\* the items copy_existing_versions copies: those with item.is_dir()
CopiedNames(w) == {it.name : it \in {i \in IterDir(w) : i.is_dir}}

(***************************************************************************)
(* The command runner.                                                     *)
(***************************************************************************)
ExitStatuses == {0, 1, 128}

Fatal == <<"f", "a", "t", "a", "l">>

StderrTexts == {NoText, Fatal}

\* captured stderr of a command, kept for the commands that fail
StderrOf(rc) == IF rc = 0 THEN {NoText} ELSE StderrTexts

\* subprocess.run without check=True never raises
RunIgnoresStatus(rc) == FALSE

\* subprocess.run(..., check=True) raises CalledProcessError
RunRaises(rc) == rc # 0

\* stdout of `git tag`
ExampleTags ==
    <<"v", "1", ".", "2", ".", "0", NL, "v", "1", ".", "1", "0", ".", "0", NL,
      "v", "1", ".", "1", ".", "0", NL>>

TagOutputs == TextsUpTo(TagChars, MaxOut) \cup {ExampleTags}

default_branch == Master

NoExit == -1
(***************************************************************************)
(* State.                                                                  *)
(***************************************************************************)
VARIABLES
    pc,            \* position of the run: idle, clean, copy, generate, resolve, render, done, failed
    ref,           \* main's ref: the reference given on the command line
    head,          \* the reference checked out in the working tree
    build,         \* the reference target/docs_build/doc was built from
    docs,          \* target/docs, the staging root
    gh_pages,      \* target/gh-pages, the scratch worktree
    ran,           \* the commands run_cmd has run in this run
    stdout,        \* what the run printed
    exc,           \* the exception that ended the run
    exit_code,     \* exit status of the process
    tag_out,       \* stdout of git tag
    refs,          \* main's refs: the version list
    version_tpl,   \* generate_main_index: the row template read
    index_tpl,     \* generate_main_index: the index template read
    version_list   \* generate_main_index: the concatenated rows

vars == <<pc, ref, head, build, docs, gh_pages, ran, stdout, exc, exit_code,
          tag_out, refs, version_tpl, index_tpl, version_list>>

fsVars == <<head, build, docs, gh_pages>>
resolveVars == <<tag_out, refs>>
renderVars == <<version_tpl, index_tpl, version_list>>

InitDocs ==
    { AbsentDir, EmptyDir,
      [exists |-> TRUE,
       dirs |-> [n \in {V2} |-> PublishedTree(n)],
       index |-> << <<"o", "l", "d">> >>] }

InitWorktrees == { NoWorktree, [exists |-> TRUE, dirs |-> {V2}] }

Init ==
    /\ pc = "idle"
    /\ ref = NoText
    /\ head = Master
    /\ build = NoText
    /\ docs \in InitDocs
    /\ gh_pages \in InitWorktrees
    /\ ran = <<>>
    /\ stdout = <<>>
    /\ exc = "none"
    /\ exit_code = NoExit
    /\ tag_out = NoText
    /\ refs = <<>>
    /\ version_tpl = <<>>
    /\ index_tpl = <<>>
    /\ version_list = NoText

(***************************************************************************)
(* The __main__ block.                                                     *)
(***************************************************************************)
\* sys.argv[1] if len(sys.argv) > 1 else default_branch
RefOfArgv(argv) == IF Len(argv) > 1 THEN argv[2] ELSE default_branch

\* a new process starts
Start ==
    /\ pc \in {"idle", "done", "failed"}
    /\ \E argv \in ArgvSet : ref' = RefOfArgv(argv)
    /\ pc' = "clean"
    /\ ran' = <<>>
    /\ stdout' = <<>>
    /\ exc' = "none"
    /\ exit_code' = NoExit
    /\ tag_out' = NoText
    /\ refs' = <<>>
    /\ version_tpl' = <<>>
    /\ index_tpl' = <<>>
    /\ version_list' = NoText
    /\ UNCHANGED fsVars

\* except subprocess.CalledProcessError as e: print(e.stderr); sys.exit(1)
\* any other exception is not caught: traceback on stderr, exit status 1
Raise(kind, err, out) ==
    /\ pc' = "failed"
    /\ exc' = kind
    /\ exit_code' = 1
    /\ stdout' = IF kind = "CalledProcessError"
                 THEN Append(out, [kind |-> "stderr", text |-> err])
                 ELSE out

Ran(cmd, rc, err) == [cmd |-> cmd, rc |-> rc, err |-> err]

(***************************************************************************)
(* clean(docs, gh_pages)                                                   *)
(***************************************************************************)
\* clean as mkdir(exist_ok=True) alone: the old content stays
CleanDocsKeep(d) == [d EXCEPT !.exists = TRUE]

\* the staging root after clean; docs.mkdir(parents=True)
\* raises FileExistsError when the staging root is still there
CleanDocs(d) == IF RmTree(d).exists THEN RmTree(d) ELSE EmptyDir

Clean ==
    /\ pc = "clean"
    /\ docs' = CleanDocs(docs)
    /\ gh_pages' = RmWorktree(gh_pages)
    /\ IF RmTree(docs).exists
       THEN Raise("FileExistsError", NoText, stdout)
       ELSE /\ pc' = "copy"
            /\ UNCHANGED <<stdout, exc, exit_code>>
    /\ UNCHANGED <<ref, head, build, ran, resolveVars, renderVars>>

(***************************************************************************)
(* copy_existing_versions(gh_pages, docs)                                  *)
(***************************************************************************)
\* shutil.copytree(item, docs / item.name) for every copied item
CopyInto(d, w) ==
    [d EXCEPT !.dirs = [n \in DOMAIN d.dirs \cup CopiedNames(w) |->
                           IF n \in CopiedNames(w) THEN PublishedTree(n) ELSE d.dirs[n]]]

CopyExistingVersions ==
    /\ pc = "copy"
    /\ \E rc \in ExitStatuses : \E err \in StderrOf(rc) : \E pub \in SUBSET PublishedPool :
         /\ ran' = Append(ran, Ran("git worktree add", rc, err))
         /\ IF RunRaises(rc)
            THEN /\ pub = {}
                 /\ Raise("CalledProcessError", err, stdout)
                 /\ UNCHANGED <<docs, gh_pages>>
            ELSE LET w == [exists |-> TRUE, dirs |-> pub] IN
                 /\ gh_pages' = w
                 /\ IF CopiedNames(w) \cap DOMAIN docs.dirs # {}
                    THEN /\ Raise("FileExistsError", NoText, stdout)
                         /\ UNCHANGED docs
                    ELSE /\ docs' = CopyInto(docs, w)
                         /\ pc' = "generate"
                         /\ UNCHANGED <<stdout, exc, exit_code>>
    /\ UNCHANGED <<ref, head, build, resolveVars, renderVars>>

(***************************************************************************)
(* generate_docs(build, docs, git_ref, redirect_template)                  *)
(***************************************************************************)
\* (docs / git_ref).mkdir(parents=True, exist_ok=True)
MkVersionDir(d, name) ==
    [d EXCEPT !.dirs = [n \in DOMAIN d.dirs \cup {name} |->
                           IF n \in DOMAIN d.dirs THEN d.dirs[n] ELSE EmptyTree]]

\* shutil.copytree(build_doc, docs / git_ref, dirs_exist_ok=True)
CopyBuild(d, name, b) ==
    LET made == MkVersionDir(d, name)
    IN  [made EXCEPT !.dirs[name] = Overlay(made.dirs[name], BuildDoc(b))]

\* shutil.copy2(redirect_template, docs / git_ref / "index.html")
CopyRedirect(d, name) == [d EXCEPT !.dirs[name] = Overlay(d.dirs[name], RedirectPage)]

GenerateDocs ==
    /\ pc = "generate"
    /\ LET out == Append(stdout, [kind |-> "generating", text |-> ref]) IN
       \E rc1 \in ExitStatuses : \E err1 \in StderrOf(rc1) :
         IF RunRaises(rc1)
         THEN /\ ran' = Append(ran, Ran("git checkout", rc1, err1))
              /\ Raise("CalledProcessError", err1, out)
              /\ UNCHANGED <<head, build, docs>>
         ELSE \E rc2 \in ExitStatuses : \E err2 \in StderrOf(rc2) :
              /\ ran' = ran \o <<Ran("git checkout", rc1, err1), Ran("cargo doc", rc2, err2)>>
              /\ head' = ref
              /\ IF RunRaises(rc2)
                 THEN /\ Raise("CalledProcessError", err2, out)
                      /\ UNCHANGED <<build, docs>>
                 ELSE /\ build' = ref
                      /\ \E redirect \in BOOLEAN :
                           IF redirect
                           THEN /\ docs' = CopyRedirect(CopyBuild(docs, ref, ref), ref)
                                /\ pc' = "resolve"
                                /\ stdout' = out
                                /\ UNCHANGED <<exc, exit_code>>
                           ELSE /\ docs' = CopyBuild(docs, ref, ref)
                                /\ Raise("FileNotFoundError", NoText, out)
    /\ UNCHANGED <<ref, gh_pages, resolveVars, renderVars>>

(***************************************************************************)
(* get_version_refs() and refs = [default_ref] + get_version_refs()        *)
(***************************************************************************)
\* the sort raises ValueError when the key of some line does
SortRaises(tags) == \E i \in 1..Len(tags) : KeyRaises(tags[i])

\* the development token put after the tags
MainRefsAppended(default_ref, sorted) == sorted \o <<default_ref>>

\* [default_ref] + get_version_refs()
MainRefs(default_ref, sorted) == <<default_ref>> \o sorted

GetVersionRefs ==
    /\ pc = "resolve"
    /\ \E rc \in ExitStatuses : \E err \in StderrOf(rc) : \E out \in TagOutputs :
         /\ ran' = Append(ran, Ran("git tag", rc, err))
         /\ IF RunRaises(rc)
            THEN /\ out = NoText
                 /\ Raise("CalledProcessError", err, stdout)
                 /\ UNCHANGED resolveVars
            ELSE /\ tag_out' = out
                 /\ IF SortRaises(SplitLines(out))
                    THEN /\ Raise("ValueError", NoText, stdout)
                         /\ UNCHANGED refs
                    ELSE /\ refs' = MainRefs(default_branch, SortDesc(SplitLines(out)))
                         /\ pc' = "render"
                         /\ UNCHANGED <<stdout, exc, exit_code>>
    /\ UNCHANGED <<ref, fsVars, renderVars>>

(***************************************************************************)
(* generate_main_index(docs, version_template, index_template, refs)       *)
(***************************************************************************)
GenerateMainIndex ==
    /\ pc = "render"
    /\ \E vt \in TemplateReads(VersionTemplates) : \E it \in TemplateReads(IndexTemplates) :
         IF vt = <<>>
         THEN /\ it = <<>>
              /\ Raise("FileNotFoundError", NoText, stdout)
              /\ UNCHANGED <<docs, renderVars>>
         ELSE /\ version_tpl' = vt
              /\ IF it = <<>>
                 THEN /\ Raise("FileNotFoundError", NoText, stdout)
                      /\ UNCHANGED <<docs, index_tpl, version_list>>
                 ELSE /\ index_tpl' = it
                      /\ version_list' = RenderRows(vt[1], refs, NoText)
                      /\ docs' = [docs EXCEPT !.index = <<IndexHtml(it[1], version_list')>>]
                      /\ pc' = "done"
                      /\ exit_code' = 0
                      /\ UNCHANGED <<stdout, exc>>
    /\ UNCHANGED <<ref, head, build, gh_pages, ran, resolveVars>>

Next ==
    \/ Start
    \/ Clean
    \/ CopyExistingVersions
    \/ GenerateDocs
    \/ GetVersionRefs
    \/ GenerateMainIndex

Spec == Init /\ [][Next]_vars

(***************************************************************************)
(* Well-formed tags and their numeric precedence, stated on positions,     *)
(* independently of the key function of the script.                        *)
(***************************************************************************)
\* the tag without ONE optional leading marker
TagBody(t) == IF t # <<>> /\ t[1] = "v" THEN SubSeq(t, 2, Len(t)) ELSE t

DotsBefore(b, i) == Cardinality({j \in 1..(i - 1) : b[j] = "."})

\* non-empty runs of digits separated by single dots
IsDottedNumeric(b) ==
    /\ b # <<>>
    /\ \A i \in 1..Len(b) : b[i] \in DigitChars \cup {"."}
    /\ b[1] # "." /\ b[Len(b)] # "."
    /\ \A i \in 1..(Len(b) - 1) : ~(b[i] = "." /\ b[i + 1] = ".")

WellFormedTag(t) == IsDottedNumeric(TagBody(t))

ComponentCount(b) == DotsBefore(b, Len(b) + 1) + 1

\* positions of the digits of the k-th component
ComponentPositions(b, k) == {i \in 1..Len(b) : b[i] # "." /\ DotsBefore(b, i) = k - 1}

RECURSIVE SumOver(_, _, _)
SumOver(ps, b, top) ==
    IF ps = {} THEN 0
    ELSE LET i == CHOOSE x \in ps : TRUE
         IN  DigitOf(b[i]) * (10 ^ (top - i)) + SumOver(ps \ {i}, b, top)

\* decimal value of the k-th component
ComponentValue(b, k) ==
    LET ps == ComponentPositions(b, k)
        top == CHOOSE m \in ps : \A x \in ps : x <= m
    IN  SumOver(ps, b, top)

\* tag a has lower numeric precedence than tag b
PrecedesNumerically(a, b) ==
    LET x == TagBody(a)
        y == TagBody(b)
        n == ComponentCount(x)
        m == ComponentCount(y)
        Same(k) == \A j \in 1..(k - 1) : ComponentValue(x, j) = ComponentValue(y, j)
    IN  \/ \E k \in 1..n : k <= m /\ Same(k) /\ ComponentValue(x, k) < ComponentValue(y, k)
        \/ n < m /\ Same(n + 1)

Occurrences(seq, x) == Cardinality({i \in 1..Len(seq) : seq[i] = x})

SamePermutation(a, b) ==
    /\ Len(a) = Len(b)
    /\ \A i \in 1..Len(a) : Occurrences(a, a[i]) = Occurrences(b, a[i])

\* the version list has been resolved in this run
Resolved == refs # <<>>

\* git tag succeeded in this run
TagsListed == ran # <<>> /\ ran[Len(ran)].cmd = "git tag" /\ ran[Len(ran)].rc = 0

ExampleSorted ==
    << Master,
       <<"v", "1", ".", "1", "0", ".", "0">>,
       <<"v", "1", ".", "2", ".", "0">>,
       <<"v", "1", ".", "1", ".", "0">> >>

\* C1: when every listed tag is well formed, the tags of the version list are
\* the listed tags in descending numeric order of their components, and the
\* listing v1.2.0, v1.10.0, v1.1.0 resolves to master, v1.10.0, v1.2.0, v1.1.0
C1_NumericDescending ==
    LET lines == SplitLines(tag_out) IN
    (Resolved /\ \A i \in 1..Len(lines) : WellFormedTag(lines[i])) =>
        /\ SamePermutation(Tail(refs), lines)
        /\ \A i \in 2..Len(refs) : \A j \in (i + 1)..Len(refs) :
              ~PrecedesNumerically(refs[i], refs[j])
        /\ (tag_out = ExampleTags => refs = ExampleSorted)

C1_Witness == pc = "done" /\ tag_out = ExampleTags /\ Len(refs) = 4

\* C2: the development token is the first element of every version list,
\* whatever reference was given and also when there are no tags
C2_DevelopmentFirst ==
    /\ pc \in {"render", "done"} => Resolved
    /\ Resolved => refs[1] = default_branch /\ Len(refs) = Len(SplitLines(tag_out)) + 1

C2_Witness == pc = "done" /\ ref # default_branch /\ Len(refs) >= 2 /\ refs[2] # default_branch

C4_CommandFailureAborts ==
    \A i \in 1..Len(ran) :
        ran[i].rc # 0 =>
            /\ i = Len(ran)
            /\ pc = "failed"
            /\ exc = "CalledProcessError"
            /\ exit_code = 1
            /\ stdout # <<>>
            /\ stdout[Len(stdout)].kind = "stderr"
            /\ stdout[Len(stdout)].text = ran[i].err
            /\ docs.index = <<>>
            /\ (ran[i].cmd = "git worktree add" => docs = EmptyDir)
            /\ (ran[i].cmd = "git checkout" => ref \notin DOMAIN docs.dirs \ gh_pages.dirs)

C4_Witness ==
    /\ pc = "failed"
    /\ Len(ran) = 3
    /\ ran[3].cmd = "cargo doc"
    /\ ran[3].rc = 128
    /\ ran[3].err = Fatal

\* e is tpl with every version field replaced by ver, position by position
IsExpansion(e, tpl, ver) ==
    LET Width(k) == IF tpl[k] = VersionField THEN Len(ver) ELSE 1
        At[k \in 1..(Len(tpl) + 1)] == IF k = 1 THEN 0 ELSE At[k - 1] + Width(k - 1)
    IN  /\ Len(e) = At[Len(tpl) + 1]
        /\ \A k \in 1..Len(tpl) :
              IF tpl[k] = VersionField
              THEN SubSeq(e, At[k] + 1, At[k] + Len(ver)) = ver
              ELSE e[At[k] + 1] = tpl[k]

\* C5: the rendered rows are exactly one expansion of the row template per
\* version, in list order with nothing between them, and that concatenation
\* is what the index template's versions field is replaced by
C5_RowsInListOrder ==
    pc = "done" =>
        LET tpl == version_tpl[1]
            N == Len(refs)
            RowLen(i) == Len(FormatTpl(tpl, VersionField, refs[i]))
            Off[i \in 1..(N + 1)] == IF i = 1 THEN 0 ELSE Off[i - 1] + RowLen(i - 1)
        IN  /\ Len(version_list) = Off[N + 1]
            /\ \A i \in 1..N :
                  IsExpansion(SubSeq(version_list, Off[i] + 1, Off[i + 1]), tpl, refs[i])
            /\ docs.index = <<CollapseSpaces(RemoveNewlines(
                                FormatTpl(index_tpl[1], VersionsField, version_list)))>>

C5_Witness == pc = "done" /\ Len(refs) = 3 /\ refs[2] # refs[3] /\ Len(version_list) > 6

\* C6: a listed tag that is not dotted-numeric after one optional leading
\* marker makes version resolution fail: no version list is built from it
C6_MalformedTagFails ==
    LET lines == SplitLines(tag_out) IN
    Resolved => \A i \in 1..Len(lines) : WellFormedTag(lines[i])

\* clean applied to a staging root and a worktree
CleanOf(fs) == <<CleanDocs(fs[1]), RmWorktree(fs[2])>>

\* C7: clean leaves the staging root existing and empty whatever it and the
\* worktree held, and a second clean right after changes nothing
C7_CleanEmptiesAndIsIdempotent ==
    /\ [](CleanOf(CleanOf(<<docs, gh_pages>>)) = CleanOf(<<docs, gh_pages>>))
    /\ [][pc = "clean" =>
            /\ docs' = EmptyDir
            /\ pc' = "copy"
            /\ CleanOf(<<docs', gh_pages'>>) = <<docs', gh_pages'>>]_vars

C7_Witness == pc = "copy" /\ docs = EmptyDir /\ build # NoText /\ ~gh_pages.exists

NonEmptyLine(l) == l # <<>>

\* C8: empty lines among well-formed tags of the tag listing are discarded:
\* the version list is the one of the listing without them and no error is
\* raised
C8_EmptyLinesDiscarded ==
    LET kept == SelectSeq(SplitLines(tag_out), NonEmptyLine) IN
    (/\ TagsListed
     /\ kept # <<>>
     /\ Len(kept) < Len(SplitLines(tag_out))
     /\ \A i \in 1..Len(kept) : WellFormedTag(kept[i])) =>
        /\ exc # "ValueError"
        /\ refs = MainRefs(default_branch, SortDesc(kept))

\* C9: once copy_existing_versions is done every version directory of the
\* gh-pages tree is in the staging root, as published until the current
\* reference is generated over it; generating a reference that was published
\* overlays the build output and the redirect page and never fails on the
\* existing directory
C9_PublishedVersionsKept ==
    /\ exc # "FileExistsError"
    /\ pc = "generate" =>
          /\ DOMAIN docs.dirs = gh_pages.dirs
          /\ docs.index = <<>>
    /\ pc \in {"generate", "resolve", "render", "done"} =>
          \A n \in gh_pages.dirs :
              /\ n \in DOMAIN docs.dirs
              /\ (n # ref \/ pc = "generate") => docs.dirs[n] = PublishedTree(n)
    /\ (pc \in {"resolve", "render", "done"} /\ ref \in gh_pages.dirs) =>
          docs.dirs[ref] = Overlay(Overlay(PublishedTree(ref), BuildDoc(ref)), RedirectPage)

C9_Witness == pc = "done" /\ ref \in gh_pages.dirs /\ gh_pages.dirs = PublishedPool

\* C10: index.html is written only by the last step of a successful run; a
\* step that fails leaves no index.html and keeps every file of the version
\* directories written so far
C10_IndexLastNoRollback ==
    [][ /\ pc' = "failed" =>
             /\ docs'.index = <<>>
             /\ \A n \in DOMAIN docs.dirs :
                   /\ n \in DOMAIN docs'.dirs
                   /\ \A f \in DOMAIN docs.dirs[n] : f \in DOMAIN docs'.dirs[n]
        /\ (docs'.index # <<>> /\ docs'.index # docs.index) =>
             (pc = "render" /\ pc' = "done")
        /\ pc' \in {"copy", "generate", "resolve", "render"} => docs'.index = <<>> ]_vars

C10_Witness ==
    /\ pc = "failed"
    /\ Len(ran) = 4
    /\ ran[4].rc # 0
    /\ ref \in DOMAIN docs.dirs
    /\ "crate" \in DOMAIN docs.dirs[ref]

=============================================================================
